---- MODULE Spec2Model ----
(***************************************************************************)
(* Model of ScrapePrices.py: the asyncio scrape engine (scrape_prices and  *)
(* its workers scrape_single_price), the ProgressTracker publishing        *)
(* scrape_progress.json, the global browsers registry with ManagedBrowser  *)
(* and cleanup_browsers, the termination-signal handler, and the external  *)
(* poller of the progress file (gui.py, ProgressMonitor.run).              *)
(*                                                                         *)
(* One action is one step of an asyncio task: the code a task runs between *)
(* two awaits.  The only synchronous code that is split is the rewrite of  *)
(* the progress file (open(..., "w") truncates, the buffered json.dump     *)
(* reaches the file at flush), because a poller in another process can see *)
(* the state in between.                                                   *)
(***************************************************************************)
EXTENDS Integers, Sequences, FiniteSets, TLC

\* ------------------------------------------------------------------ bounds
MaxItems == 2
MaxRetries == 3
MaxThreads == 2
MaxElapsed == 1
MaxSignalRetries == 2
MaxHours == 2
MaxPrices == 3
MaxDrop == 4

\* ------------------------------------------------------- values and helpers
\* Optional[str]: None, or a text; text 0 stands for the empty string.
NoneResult == [isNone |-> TRUE, text |-> 0]
Str(t) == [isNone |-> FALSE, text |-> t]

\* Python truthiness of an Optional[str] (`if price:`).
Truthy(r) == ~r.isNone /\ r.text # 0

\* The text the price element shows at address url.
PageText(url) == 100 + url

\* The value under "Last Scrape": the key absent, the empty text, a text
\* that strptime rejects, or a text in the format "%Y-%m-%d %H:%M" naming the
\* minute that lies minutesAgo whole minutes before the clock reading.
\* The timestamp written by datetime.now().strftime(...): zero minutes ago.
NowStamp == [kind |-> "time", minutesAgo |-> 0]

Stamps == {[kind |-> "absent", minutesAgo |-> 0],
           [kind |-> "bad", minutesAgo |-> 0],
           [kind |-> "time", minutesAgo |-> 60]}

\* The catalog items considered for position i: Set 0 = key missing,
\* Link 0 = key missing or empty.
ItemsAt(i) == {it \in [Set : {0, i}, Link : {0, i}, Price : {0, 1}, LastScrape : Stamps] :
                 /\ it.Set = 0 => (it.Link = i /\ it.LastScrape.kind = "bad")
                 /\ it.LastScrape.kind = "bad" => it.Set = 0
                 /\ it.Link = 0 => it.LastScrape.kind = "absent"
                 /\ it.Price = 1 <=> it.LastScrape.kind = "time"}

Catalogs == UNION {{c \in [1..n -> UNION {ItemsAt(i) : i \in 1..n}] :
                      \A i \in 1..n : c[i] \in ItemsAt(i)} : n \in 0..MaxItems}

Intervals == {0, 24}

RECURSIVE Pow2(_)
Pow2(n) == IF n = 0 THEN 1 ELSE 2 * Pow2(n - 1)

RECURSIVE RemoveFirst(_, _)
\* list.remove(x) on a list that contains x
RemoveFirst(s, x) == IF s = <<>> THEN <<>>
                     ELSE IF Head(s) = x THEN Tail(s)
                     ELSE <<Head(s)>> \o RemoveFirst(Tail(s), x)

InList(s, x) == \E k \in 1..Len(s) : s[k] = x

\* `time_since_last >= timedelta(hours=...)`, in whole minutes
IntervalElapsed(minutesAgo, hours) == minutesAgo >= 60 * hours

\* should_scrape(item, scrape_interval_hours): "True", "False", or "KeyError"
\* when the warning about a rejected timestamp reads item['Set'] and the
\* item has no such key
should_scrape(item, hours) ==
  IF hours = 0 THEN "True"
  ELSE IF item.LastScrape.kind \in {"absent", "empty"} THEN "True"
  ELSE IF item.LastScrape.kind = "bad"
       THEN (IF item.Set = 0 THEN "KeyError" ELSE "True")
  ELSE IF IntervalElapsed(item.LastScrape.minutesAgo, hours) THEN "True" ELSE "False"

\* the list comprehension of scrape_prices raises: some item with a link
\* makes should_scrape raise
EligibleRaises(d, hours) ==
  \E k \in 1..Len(d) : d[k].Link # 0 /\ should_scrape(d[k], hours) = "KeyError"

RECURSIVE EligibleFrom(_, _, _)
\* [item for item in data if item.get("Link") and should_scrape(...)], as the
\* indices k..Len(d) of the items kept, in catalog order
EligibleFrom(d, k, hours) ==
  IF k > Len(d) THEN <<>>
  ELSE (IF d[k].Link # 0 /\ should_scrape(d[k], hours) = "True" THEN <<k>> ELSE <<>>)
       \o EligibleFrom(d, k + 1, hours)

\* --------------------------------------------------------------- the state
VARIABLES
  readable,        \* the catalog file exists and holds valid JSON
  loaded,          \* the catalog as load_data returned it (never changes)
  data,            \* the catalog handed to scrape_prices (mutated in place)
  retries, max_threads, scrape_interval_hours,   \* config.json
  mainPc,          \* position of the main task
  items_to_scrape, \* eligible subset: indices into data, in order
  pc,              \* pc[w]: position of the worker for items_to_scrape[w]
  attempt,         \* attempt[w]: the loop variable of `for attempt in range(retries)`
  result,          \* result[w]: the local `result`
  pend,            \* pend[w]: exception propagating through worker w
  cancelReq,       \* cancelReq[w]: task.cancel() requested, not yet delivered
  ret,             \* ret[w]: how the task ended
  semaphore,       \* asyncio.Semaphore value
  browsers,        \* the global list of browser instances
  browserState,    \* browserState[w]: the browser launched by worker w
  progress,        \* the ProgressTracker fields
  fileState,       \* scrape_progress.json: absent, empty (truncated), full
  fileSnap,        \* its content when full
  results,         \* what asyncio.gather returned
  saved,           \* save_data was called (with the catalog `data`)
  exiting,         \* "no", or why asyncio.run is cancelling the remaining tasks
  sig,             \* a termination signal was handled
  cleanPc,         \* the task running cleanup_browsers
  cleanTargets,    \* the browsers that task is closing
  exitCode,        \* process exit status, -1 while running
  readerSaw,       \* what the poller's last read found
  calls,           \* observation: the calls made so far and the order in which
                   \* the workers finished (history, read by no action)
  fnIn,            \* the arguments of a function called on its own
  fnOut            \* what that call returned

vars == <<readable, loaded, data, retries, max_threads, scrape_interval_hours, mainPc, items_to_scrape,
          pc, attempt, result, pend, cancelReq, ret, semaphore, browsers, browserState,
          progress, fileState, fileSnap, results, saved, exiting, sig, cleanPc,
          cleanTargets, exitCode, readerSaw, calls, fnIn, fnOut>>

cfgVars == <<readable, loaded, retries, max_threads, scrape_interval_hours>>
fnVars == <<fnIn, fnOut>>
workerVars == <<pc, attempt, result, pend, cancelReq, ret>>
browserVars == <<browsers, browserState>>
fileVars == <<fileState, fileSnap>>
readerVars == <<readerSaw>>
cleanVars == <<cleanPc, cleanTargets>>

Workers == 1..Len(pc)

\* the content of a file that was never written
NoSnap == [total_items |-> 0, items_to_scrape |-> 0, processed |-> 0, failed |-> 0,
           successful |-> 0, estimated_remaining_time |-> 0]

\* the counters before a tracker is constructed
NoTracker == [total_items |-> 0, items_to_scrape |-> 0, processed |-> 0, failed |-> 0,
              successful |-> 0]

NoCalls == [tracker |-> 0, cleanup |-> 0, removeFailed |-> 0,
            updates |-> <<>>, attempts |-> <<>>, fails |-> <<>>, sleeps |-> <<>>,
            launches |-> 0, order |-> <<>>, valueErrors |-> 0, sessions |-> <<>>,
            acquires |-> <<>>, releases |-> <<>>]

\* no function is called on its own; an answer r is held as <<r>>
NoCall == <<>>

\* the state of the process before main runs, whatever the files hold
InitProcess ==
  /\ mainPc = "main"
  /\ items_to_scrape = <<>>
  /\ pc = <<>> /\ attempt = <<>> /\ result = <<>> /\ pend = <<>>
  /\ cancelReq = <<>> /\ ret = <<>>
  /\ semaphore = 0
  /\ browsers = <<>> /\ browserState = <<>>
  /\ progress = NoTracker
  /\ fileState = "absent" /\ fileSnap = NoSnap
  /\ results = <<>>
  /\ saved = FALSE
  /\ exiting = "no" /\ sig = FALSE
  /\ cleanPc = "none" /\ cleanTargets = {}
  /\ exitCode = -1
  /\ readerSaw = "nothing"
  /\ calls = NoCalls

Init ==
  /\ readable \in BOOLEAN
  /\ loaded \in IF readable THEN Catalogs ELSE {<<>>}
  /\ data = loaded
  /\ retries \in 0..MaxRetries
  /\ max_threads \in 1..MaxThreads
  /\ scrape_interval_hours \in Intervals
  /\ InitProcess
  /\ fnIn = NoCall /\ fnOut = NoCall

\* ------------------------------------------------------- ProgressTracker
\* ProgressTracker.__init__: the counters of a new tracker
TrackerInit(total, eligible) ==
  [total_items |-> total, items_to_scrape |-> eligible,
   processed |-> 0, failed |-> 0, successful |-> 0]

\* update_progress that forgets the failure counter
update_progress_NoFailed(p, success) ==
  [p EXCEPT !.processed = @ + 1,
            !.successful = IF success THEN @ + 1 ELSE @]

\* update_progress that takes one item back when it records a failure
update_progress_Undo(p, success) ==
  [p EXCEPT !.processed = IF success THEN @ + 1 ELSE @ - 1,
            !.successful = IF success THEN @ + 1 ELSE @,
            !.failed = IF success THEN @ ELSE @ + 1]

\* update_progress, the counters (lines 72-76)
update_progress(p, success) ==
  [p EXCEPT !.processed = @ + 1,
            !.successful = IF success THEN @ + 1 ELSE @,
            !.failed = IF success THEN @ ELSE @ + 1]

\* update_progress, the estimate (lines 78-81), times in whole seconds
EstimatedRemaining(p, elapsed) ==
  LET avg == IF p.processed > 0 THEN elapsed \div p.processed ELSE 0
  IN (p.items_to_scrape - p.processed) * avg

\* the object handed to json.dump
Snapshot(p, est) ==
  [total_items |-> p.total_items, items_to_scrape |-> p.items_to_scrape,
   processed |-> p.processed, failed |-> p.failed, successful |-> p.successful,
   estimated_remaining_time |-> est]

\* a semaphore created one permit too wide
SemaphoreInit_OneMore(n) == n + 1

\* asyncio.Semaphore(max_threads)
SemaphoreInit(n) == n

\* an exit of `async with semaphore` that keeps the permit
Release_Leak(s) == s

\* the exit of `async with semaphore`: semaphore.release()
Release(s) == s + 1

\* a gather that hands the results back last task first
Gather_Reversed(res) == [w \in 1..Len(res) |-> res[Len(res) + 1 - w]]

\* asyncio.gather(*tasks): the i-th result is the i-th task's return value
Gather(res) == [w \in 1..Len(res) |-> res[w]]

\* a merge that writes whatever the worker returned
Merge_Always(d, elig, res) ==
  [k \in 1..Len(d) |->
     IF \E w \in 1..Len(elig) : elig[w] = k
     THEN LET w == CHOOSE v \in 1..Len(elig) : elig[v] = k
          IN [d[k] EXCEPT !.Price = res[w].text, !.LastScrape = NowStamp]
     ELSE d[k]]

\* the merge loop: zip(items_to_scrape, results), write when the price is truthy
Merge(d, elig, res) ==
  [k \in 1..Len(d) |->
     IF \E w \in 1..Len(elig) : elig[w] = k /\ Truthy(res[w])
     THEN LET w == CHOOSE v \in 1..Len(elig) : elig[v] = k /\ Truthy(res[v])
          IN [d[k] EXCEPT !.Price = res[w].text, !.LastScrape = NowStamp]
     ELSE d[k]]

\* a cleanup that leaves the file in place
cleanup_Keep(state, removed) == state

\* ProgressTracker.cleanup: the file after it, os.remove having worked or raised
cleanup(state, removed) ==
  IF state # "absent" /\ removed THEN "absent" ELSE state

\* ------------------------------------------------------------- main task
\* the event-loop thread is not inside a synchronous rewrite of the file
LoopFree == mainPc # "init_write" /\ \A w \in Workers : pc[w] # "publishing"

AllDone == \A w \in Workers : pc[w] = "done"

\* an early return that is never taken
NothingToDo_Never(items) == FALSE

\* `if not items_to_scrape`
NothingToDo(items) == items = <<>>

\* main up to the call of scrape_prices: load_data answers None for a file
\* that is missing or is not JSON, and `if not data: return` ends main
MainLoad ==
  /\ mainPc = "main"
  /\ IF ~readable \/ data = <<>>
     THEN mainPc' = "done" /\ exitCode' = 0
     ELSE mainPc' = "scrape_prices" /\ UNCHANGED exitCode
  /\ UNCHANGED <<data, cfgVars, fnVars, items_to_scrape, workerVars, semaphore, browserVars,
                 progress, fileVars, results, saved, exiting, sig, cleanVars,
                 readerVars, calls>>

\* scrape_prices up to the early return or to open(PROGRESS_FILE, "w")
ScrapeStart ==
  /\ mainPc = "scrape_prices"
  /\ IF EligibleRaises(data, scrape_interval_hours)
     THEN \* the KeyError leaves scrape_prices and main; no task was created
          /\ mainPc' = "raised" /\ exiting' = "error"
          /\ UNCHANGED <<items_to_scrape, progress, fileVars, calls, saved, exitCode>>
     ELSE
     /\ items_to_scrape' = EligibleFrom(data, 1, scrape_interval_hours)
     /\ UNCHANGED exiting
     /\ IF NothingToDo(items_to_scrape')
        THEN \* return data; main: save_data(updated_data); the process ends
             /\ mainPc' = "done" /\ saved' = TRUE /\ exitCode' = 0
             /\ UNCHANGED <<progress, fileVars, calls>>
        ELSE /\ mainPc' = "init_write"
             /\ progress' = TrackerInit(Len(data), Len(items_to_scrape'))
             /\ fileState' = "empty"
             /\ calls' = [calls EXCEPT !.tracker = @ + 1]
             /\ UNCHANGED <<fileSnap, saved, exitCode>>
  /\ UNCHANGED <<data, cfgVars, fnVars, workerVars, semaphore, browserVars, results,
                 sig, cleanVars, readerVars>>

\* _initialize_progress_file from json.dump on, then the semaphore and the tasks
InitWrite ==
  /\ mainPc = "init_write"
  /\ fileState' = "full"
  /\ fileSnap' = Snapshot(progress, 0)
  /\ semaphore' = SemaphoreInit(max_threads)
  /\ LET n == Len(items_to_scrape) IN
       /\ pc' = [w \in 1..n |-> "new"]
       /\ attempt' = [w \in 1..n |-> 0]
       /\ result' = [w \in 1..n |-> NoneResult]
       /\ pend' = [w \in 1..n |-> "none"]
       /\ cancelReq' = [w \in 1..n |-> FALSE]
       /\ ret' = [w \in 1..n |-> "running"]
       /\ browserState' = [w \in 1..n |-> "none"]
       /\ calls' = [calls EXCEPT !.updates = [w \in 1..n |-> 0],
                                 !.attempts = [w \in 1..n |-> 0],
                                 !.fails = [w \in 1..n |-> 0],
                                 !.sleeps = [w \in 1..n |-> <<>>],
                                 !.sessions = [w \in 1..n |-> <<>>],
                                 !.acquires = [w \in 1..n |-> 0],
                                 !.releases = [w \in 1..n |-> 0]]
  /\ mainPc' = "gather"
  /\ UNCHANGED <<data, cfgVars, fnVars, items_to_scrape, browsers, progress, results, saved,
                 exiting, sig, cleanVars, exitCode, readerVars>>

\* a wait that is over as soon as one task has returned
GatherDone_First(r) == \E w \in 1..Len(r) : r[w] = "returned"

\* `await asyncio.gather(*tasks)` is over: every task has returned
GatherDone(r) == \A w \in 1..Len(r) : r[w] = "returned"

\* gather returns: merge, progress.cleanup(), return; main: save_data
GatherReturn ==
  /\ mainPc = "gather" /\ exiting = "no" /\ LoopFree
  /\ GatherDone(ret)
  /\ results' = Gather(result)
  /\ data' = Merge(data, items_to_scrape, results')
  /\ \E removed \in IF fileState # "absent" THEN BOOLEAN ELSE {TRUE} :
       /\ fileState' = cleanup(fileState, removed)
       /\ calls' = [calls EXCEPT !.cleanup = @ + 1,
                                 !.removeFailed = IF removed THEN @ ELSE @ + 1]
  /\ saved' = TRUE
  /\ mainPc' = "done"
  /\ exitCode' = 0
  /\ UNCHANGED <<cfgVars, fnVars, items_to_scrape, workerVars, semaphore, browserVars, progress,
                 fileSnap, exiting, sig, cleanVars, readerVars>>

\* gather re-raises the first exception of a worker: scrape_prices and main
\* raise, and asyncio.run cancels the tasks that are left
GatherRaise ==
  /\ mainPc = "gather" /\ exiting = "no" /\ LoopFree
  /\ \E w \in Workers : ret[w] = "raised"
  /\ mainPc' = "raised"
  /\ exiting' = "error"
  /\ cancelReq' = [w \in Workers |-> pc[w] # "done"]
  /\ UNCHANGED <<data, cfgVars, fnVars, items_to_scrape, pc, attempt, result, pend, ret,
                 semaphore, browserVars, progress, fileVars, results, saved, sig,
                 cleanVars, exitCode, readerVars, calls>>

\* the main task is cancelled while it waits in gather
MainCancelled ==
  /\ mainPc = "gather" /\ exiting # "no" /\ LoopFree
  /\ mainPc' = "cancelled"
  /\ UNCHANGED <<data, cfgVars, fnVars, items_to_scrape, workerVars, semaphore, browserVars,
                 progress, fileVars, results, saved, exiting, sig, cleanVars, exitCode,
                 readerVars, calls>>

\* every task is finished: asyncio.run re-raises and the process ends
Terminate ==
  /\ exitCode = -1 /\ exiting # "no"
  /\ mainPc \in {"raised", "cancelled"} /\ AllDone
  /\ cleanPc \in {"none", "done", "cancelled"}
  /\ exitCode' = IF exiting = "sysexit" THEN 0 ELSE 1
  /\ UNCHANGED <<data, cfgVars, fnVars, mainPc, items_to_scrape, workerVars, semaphore,
                 browserVars, progress, fileVars, results, saved, exiting, sig,
                 cleanVars, readerVars, calls>>

\* ---------------------------------------------------- scrape_single_price
Item(w) == data[items_to_scrape[w]]

\* the exception worker w sees at its await: a delivered cancellation, or the
\* one already propagating
Raised(w) == IF cancelReq[w] THEN "Cancelled" ELSE pend[w]

Interrupted(w) == cancelReq[w] \/ pend[w] # "none"

\* how a task ends when exception e (or none) leaves the coroutine
EndKind(e) == CASE e = "none" -> "returned"
                [] e = "Error" -> "raised"
                [] e = "Cancelled" -> "cancelled"
                [] e = "SystemExit" -> "exit"

\* the `finally:` of the worker up to open(PROGRESS_FILE, "w"): the counters are
\* updated and the file is truncated
EnterFinally(w, res, e, c) ==
  /\ result' = [result EXCEPT ![w] = res]
  /\ pend' = [pend EXCEPT ![w] = e]
  /\ cancelReq' = [cancelReq EXCEPT ![w] = FALSE]
  /\ progress' = update_progress(progress, ~res.isNone)
  /\ fileState' = "empty"
  /\ pc' = [pc EXCEPT ![w] = "publishing"]
  /\ calls' = [c EXCEPT !.updates[w] = @ + 1]

\* the coroutine is left: the semaphore is released and the task is done.  A
\* SystemExit leaving a task stops the loop, and asyncio.run cancels the rest.
EndTask(w, how, c) ==
  /\ pc' = [pc EXCEPT ![w] = "done"]
  /\ ret' = [ret EXCEPT ![w] = how]
  /\ semaphore' = Release(semaphore)
  /\ calls' = [c EXCEPT !.order = Append(@, w), !.releases[w] = @ + 1]
  /\ IF how = "exit" /\ exiting = "no"
     THEN /\ exiting' = "sysexit"
          /\ cancelReq' = [v \in Workers |-> v # w /\ pc[v] # "done"]
     ELSE /\ exiting' = exiting
          /\ cancelReq' = [cancelReq EXCEPT ![w] = FALSE]

\* `async with semaphore`: the permit is taken
Acquire(w) ==
  /\ pc[w] = "new" /\ ~cancelReq[w] /\ LoopFree
  /\ semaphore > 0
  /\ semaphore' = semaphore - 1
  /\ pc' = [pc EXCEPT ![w] = "launch"]
  /\ calls' = [calls EXCEPT !.acquires[w] = @ + 1]
  /\ UNCHANGED <<data, cfgVars, fnVars, mainPc, items_to_scrape, attempt, result, pend,
                 cancelReq, ret, browserVars, progress, fileVars, results, saved,
                 exiting, sig, cleanVars, exitCode, readerVars>>

\* a task cancelled before it holds the permit ends without running its body
CancelNew(w) ==
  /\ pc[w] = "new" /\ cancelReq[w] /\ LoopFree
  /\ pc' = [pc EXCEPT ![w] = "done"]
  /\ ret' = [ret EXCEPT ![w] = "cancelled"]
  /\ cancelReq' = [cancelReq EXCEPT ![w] = FALSE]
  /\ UNCHANGED <<data, cfgVars, fnVars, mainPc, items_to_scrape, attempt, result, pend,
                 semaphore, browserVars, progress, fileVars, results, saved, exiting,
                 sig, cleanVars, exitCode, readerVars, calls>>

\* async_playwright() and chromium.launch() return or raise; then
\* ManagedBrowser(browser), item["Set"], item["Link"] and the entry of the loop
Launch(w) ==
  /\ pc[w] = "launch" /\ LoopFree
  /\ IF Interrupted(w)
     THEN /\ EndTask(w, EndKind(Raised(w)), calls)
          /\ UNCHANGED <<attempt, result, pend, browserVars, progress, fileVars>>
     ELSE \E launched \in BOOLEAN :
       IF ~launched
       THEN /\ EndTask(w, "raised", calls)
            /\ UNCHANGED <<attempt, result, pend, browserVars, progress, fileVars>>
       ELSE /\ browsers' = Append(browsers, w)
            /\ browserState' = [browserState EXCEPT ![w] = "open"]
            /\ UNCHANGED <<attempt, ret, semaphore, exiting, fileSnap>>
            /\ LET c == [calls EXCEPT !.launches = @ + 1] IN
               IF Item(w).Set = 0
               THEN \* KeyError at item["Set"], before the try
                    /\ pend' = [pend EXCEPT ![w] = "Error"]
                    /\ pc' = [pc EXCEPT ![w] = "closing"]
                    /\ calls' = c
                    /\ UNCHANGED <<result, cancelReq, progress, fileState>>
               ELSE IF retries <= 0
               THEN \* range(retries) is empty
                    EnterFinally(w, NoneResult, "none", c)
               ELSE /\ pc' = [pc EXCEPT ![w] = "attempt"]
                    /\ calls' = c
                    /\ UNCHANGED <<result, pend, cancelReq, progress, fileState>>
  /\ UNCHANGED <<data, cfgVars, fnVars, mainPc, items_to_scrape, results, saved, sig,
                 cleanVars, exitCode, readerVars>>

\* what one attempt can come to: the browser of the worker may have been closed
AttemptOutcomes(w) == IF browserState[w] = "open" THEN {"text", "empty", "fail"}
                      ELSE {"fail"}

\* a backoff that starts one power too high
Backoff_OneHigher(a) == Pow2(a + 1)

\* the wait before the next attempt
Backoff(a) == Pow2(a)

\* the browser an attempt of worker w works on: the local `browser`, bound
\* once by `async with ManagedBrowser(browser) as browser` before the loop
BrowserOfAttempt(w) == w

\* browser.new_context(): one more context on that browser, the n-th; no
\* attempt closes its context
new_context(n) == n + 1

\* one pass of the retry loop, from new_context to inner_text or the except
Attempt(w) ==
  /\ pc[w] = "attempt" /\ LoopFree
  /\ IF Interrupted(w)
     THEN /\ EnterFinally(w, result[w], Raised(w), calls)
          /\ UNCHANGED <<attempt>>
     ELSE \E out \in AttemptOutcomes(w) :
       LET c == [calls EXCEPT
                   !.attempts[w] = @ + 1,
                   !.sessions[w] = Append(@, [browser |-> BrowserOfAttempt(w),
                                              context |-> new_context(Len(@))])] IN
       CASE out = "text" ->
              /\ EnterFinally(w, Str(PageText(Item(w).Link)), "none", c)
              /\ UNCHANGED <<attempt>>
         [] out = "empty" ->
              /\ EnterFinally(w, Str(0), "none", c)
              /\ UNCHANGED <<attempt>>
         [] out = "fail" ->
              LET cf == [c EXCEPT !.fails[w] = @ + 1] IN
              IF attempt[w] < retries - 1
              THEN /\ pc' = [pc EXCEPT ![w] = "sleep"]
                   /\ calls' = [cf EXCEPT !.sleeps[w] = Append(@, Backoff(attempt[w]))]
                   /\ UNCHANGED <<attempt, result, pend, cancelReq, progress, fileState>>
              ELSE /\ EnterFinally(w, result[w], "none", cf)
                   /\ UNCHANGED <<attempt>>
  /\ UNCHANGED <<data, cfgVars, fnVars, mainPc, items_to_scrape, ret, semaphore, browserVars,
                 fileSnap, results, saved, exiting, sig, cleanVars, exitCode, readerVars>>

\* asyncio.sleep(wait) returns and the loop goes to the next attempt
Sleep(w) ==
  /\ pc[w] = "sleep" /\ LoopFree
  /\ IF Interrupted(w)
     THEN /\ EnterFinally(w, result[w], Raised(w), calls)
          /\ UNCHANGED <<attempt>>
     ELSE /\ attempt' = [attempt EXCEPT ![w] = @ + 1]
          /\ pc' = [pc EXCEPT ![w] = "attempt"]
          /\ UNCHANGED <<result, pend, cancelReq, progress, fileState, calls>>
  /\ UNCHANGED <<data, cfgVars, fnVars, mainPc, items_to_scrape, ret, semaphore, browserVars,
                 fileSnap, results, saved, exiting, sig, cleanVars, exitCode, readerVars>>

\* update_progress from json.dump on: the snapshot reaches the file; then
\* `return result` and ManagedBrowser.__aexit__ starts browser.close()
Publish(w) ==
  /\ pc[w] = "publishing"
  /\ \E elapsed \in 0..MaxElapsed :
       fileSnap' = Snapshot(progress, EstimatedRemaining(progress, elapsed))
  /\ fileState' = "full"
  /\ pc' = [pc EXCEPT ![w] = "closing"]
  /\ UNCHANGED <<data, cfgVars, fnVars, mainPc, items_to_scrape, attempt, result, pend,
                 cancelReq, ret, semaphore, browserVars, progress, results, saved,
                 exiting, sig, cleanVars, exitCode, readerVars, calls>>

\* ManagedBrowser.__aexit__: browser.close() returns or raises, then
\* browsers.remove(self.browser); the playwright context and the semaphore exit
Close(w) ==
  /\ pc[w] = "closing" /\ LoopFree
  /\ IF cancelReq[w]
     THEN \* the cancellation interrupts the wait for close(): no remove
          /\ \E st \in {"open", "closed"} :
               browserState' = [browserState EXCEPT ![w] = st]
          /\ browsers' = browsers
          /\ EndTask(w, "cancelled", calls)
     ELSE \E closed \in BOOLEAN :
       IF ~closed
       THEN /\ EndTask(w, "raised", calls)
            /\ UNCHANGED browserVars
       ELSE /\ browserState' = [browserState EXCEPT ![w] = "closed"]
            /\ IF InList(browsers, w)
               THEN /\ browsers' = RemoveFirst(browsers, w)
                    /\ EndTask(w, EndKind(pend[w]), calls)
               ELSE \* ValueError: list.remove(x): x not in list
                    /\ browsers' = browsers
                    /\ EndTask(w, "raised", [calls EXCEPT !.valueErrors = @ + 1])
  /\ UNCHANGED <<data, cfgVars, fnVars, mainPc, items_to_scrape, attempt, result, pend,
                 progress, fileVars, results, saved, sig, cleanVars, exitCode,
                 readerVars>>

\* ------------------------------------- handle_exit_signal, cleanup_browsers
\* where the SystemExit of sys.exit(0) is raised: in the event loop itself
\* (target 0), or in the step of a worker that is past its await
SignalTargets == {0} \cup {w \in Workers : pc[w] \in {"launch", "attempt", "sleep"}
                                           /\ pend[w] = "none"}

\* SIGINT or SIGTERM during the batch: create_task(cleanup_browsers()); sys.exit(0)
handle_exit_signal(t) ==
  /\ exitCode = -1 /\ ~sig /\ exiting = "no"
  /\ mainPc = "gather" /\ LoopFree
  /\ t \in SignalTargets
  /\ sig' = TRUE
  /\ cleanPc' = "created"
  /\ IF t = 0
     THEN /\ exiting' = "sysexit"
          /\ cancelReq' = [w \in Workers |-> pc[w] # "done"]
          /\ pend' = pend
     ELSE /\ pend' = [pend EXCEPT ![t] = "SystemExit"]
          /\ UNCHANGED <<exiting, cancelReq>>
  /\ UNCHANGED <<data, cfgVars, fnVars, mainPc, items_to_scrape, pc, attempt, result, ret,
                 semaphore, browserVars, progress, fileVars, results, saved,
                 cleanTargets, exitCode, readerVars, calls>>

\* the browsers cleanup_browsers closes: `browser for browser in browsers if browser`
CleanupTargets(reg) == {reg[k] : k \in 1..Len(reg)}

\* cleanup_browsers starts: one close() per registered browser is gathered.
\* A gather of nothing is complete at once, and the task runs on to
\* browsers.clear() without giving up the loop.
CleanStart ==
  /\ cleanPc = "created" /\ exiting = "no" /\ LoopFree
  /\ cleanTargets' = CleanupTargets(browsers)
  /\ cleanPc' = IF browsers = <<>> THEN "done" ELSE "closing"
  /\ UNCHANGED <<data, cfgVars, fnVars, mainPc, items_to_scrape, workerVars, semaphore,
                 browserVars, progress, fileVars, results, saved, exiting, sig,
                 exitCode, readerVars, calls>>

\* one of the gathered close() calls completes
CleanClose(b) ==
  /\ cleanPc = "closing" /\ exiting = "no" /\ LoopFree
  /\ b \in cleanTargets
  /\ browserState' = [browserState EXCEPT ![b] = "closed"]
  /\ cleanTargets' = cleanTargets \ {b}
  /\ UNCHANGED <<data, cfgVars, fnVars, mainPc, items_to_scrape, workerVars, semaphore,
                 browsers, progress, fileVars, results, saved, exiting, sig, cleanPc,
                 exitCode, readerVars, calls>>

\* the gather is complete: browsers.clear()
CleanFinish ==
  /\ cleanPc = "closing" /\ exiting = "no" /\ LoopFree
  /\ cleanTargets = {}
  /\ browsers' = <<>>
  /\ cleanPc' = "done"
  /\ UNCHANGED <<data, cfgVars, fnVars, mainPc, items_to_scrape, workerVars, semaphore,
                 browserState, progress, fileVars, results, saved, exiting, sig,
                 cleanTargets, exitCode, readerVars, calls>>

\* asyncio.run cancels the cleanup task with the others
CleanCancel ==
  /\ cleanPc \in {"created", "closing"} /\ exiting # "no" /\ LoopFree
  /\ cleanPc' = "cancelled"
  /\ cleanTargets' = {}
  /\ UNCHANGED <<data, cfgVars, fnVars, mainPc, items_to_scrape, workerVars, semaphore,
                 browserVars, progress, fileVars, results, saved, exiting, sig,
                 exitCode, readerVars, calls>>

\* ------------------------------------------------- gui.py ProgressMonitor
\* one poll: os.path.exists, open, json.load.  An empty file makes json.load
\* raise, which the monitor swallows.
MonitorRead ==
  /\ exitCode = -1
  /\ readerSaw' = fileState
  /\ UNCHANGED <<data, cfgVars, fnVars, mainPc, items_to_scrape, workerVars, semaphore,
                 browserVars, progress, fileVars, results, saved, exiting, sig,
                 cleanVars, exitCode, calls>>

\* ---------------------------------------------------------- specification
\* the steps of the main task and of the workers
Run ==
  \/ MainLoad
  \/ ScrapeStart
  \/ InitWrite
  \/ GatherReturn
  \/ GatherRaise
  \/ Terminate
  \/ \E w \in Workers : Acquire(w)
  \/ \E w \in Workers : CancelNew(w)
  \/ \E w \in Workers : Launch(w)
  \/ \E w \in Workers : Attempt(w)
  \/ \E w \in Workers : Sleep(w)
  \/ \E w \in Workers : Publish(w)
  \/ \E w \in Workers : Close(w)

\* a run in which no termination signal arrives, polled by the monitor
Next ==
  \/ Run
  \/ MonitorRead

Spec == Init /\ [][Next]_vars

\* a run during which SIGINT or SIGTERM may arrive
InitSignal ==
  /\ Init
  /\ retries \in 1..MaxSignalRetries

NextSignal ==
  \/ Run
  \/ MainCancelled
  \/ \E t \in 0..MaxItems : handle_exit_signal(t)
  \/ CleanStart
  \/ \E b \in Workers : CleanClose(b)
  \/ CleanFinish
  \/ CleanCancel

SpecSignal == InitSignal /\ [][NextSignal]_vars

\* ------------------------------------------------ should_scrape on its own
\* the "Last Scrape" values tried: every minute from one minute in the future
\* to one minute past the longest interval
DueStamps == {[kind |-> k, minutesAgo |-> 0] : k \in {"absent", "empty", "bad"}}
             \cup {[kind |-> "time", minutesAgo |-> m] : m \in (0 - 1)..(60 * MaxHours + 1)}

DueItems == [Set : {0, 1}, Link : {1}, Price : {0}, LastScrape : DueStamps]

DueCalls == [item : DueItems, hours : 0..MaxHours]

\* no catalog and no run: only the arguments of one call are chosen
InitDue ==
  /\ readable = FALSE /\ loaded = <<>> /\ data = <<>>
  /\ retries = 0 /\ max_threads = 1 /\ scrape_interval_hours = 0
  /\ InitProcess
  /\ fnIn \in DueCalls /\ fnOut = NoCall

\* should_scrape(item, scrape_interval_hours) is called and answers
CallShouldScrape ==
  /\ fnOut = NoCall
  /\ fnOut' = <<should_scrape(fnIn.item, fnIn.hours)>>
  /\ UNCHANGED <<data, cfgVars, fnIn, mainPc, items_to_scrape, workerVars, semaphore,
                 browserVars, progress, fileVars, results, saved, exiting, sig,
                 cleanVars, exitCode, readerVars, calls>>

NextDue == CallShouldScrape

SpecDue == InitDue /\ [][NextDue]_vars

\* ------------------------------------- TotalCost.py calculate_total_value
\* A text is a sequence of characters.  str.strip(): the whitespace at both
\* ends is dropped.
RECURSIVE StripLeft(_)
StripLeft(t) == IF t # <<>> /\ Head(t) = " " THEN StripLeft(Tail(t)) ELSE t

RECURSIVE StripRight(_)
StripRight(t) == IF t # <<>> /\ t[Len(t)] = " "
                 THEN StripRight(SubSeq(t, 1, Len(t) - 1)) ELSE t

Strip(t) == StripRight(StripLeft(t))

RECURSIVE Replace(_, _)
\* str.replace(ch, ""): every occurrence of the character is dropped
Replace(t, ch) == IF t = <<>> THEN <<>>
                  ELSE (IF Head(t) = ch THEN <<>> ELSE <<Head(t)>>) \o Replace(Tail(t), ch)

Digits == {"0", "1", "2", "5"}

DigitValue(ch) == CASE ch = "0" -> 0 [] ch = "1" -> 1 [] ch = "2" -> 2 [] ch = "5" -> 5

RECURSIVE Decimal(_)
Decimal(t) == IF t = <<>> THEN 0
              ELSE 10 * Decimal(SubSeq(t, 1, Len(t) - 1)) + DigitValue(t[Len(t)])

\* float(text) on texts of digits: the whitespace around the number is
\* accepted, anything else but digits makes it raise ValueError
ParseFloat(t) ==
  LET u == Strip(t) IN
    IF u # <<>> /\ \A i \in 1..Len(u) : u[i] \in Digits
    THEN [ok |-> TRUE, value |-> Decimal(u)]
    ELSE [ok |-> FALSE, value |-> 0]

RECURSIVE CollectPrices(_)
\* the loop over the items: the list `prices`
CollectPrices(d) ==
  IF d = <<>> THEN <<>>
  ELSE LET price_str == Strip(IF Head(d).hasPrice THEN Head(d).CurrentPrice ELSE <<>>)
           parsed == ParseFloat(Replace(Replace(price_str, "$"), ","))
       IN (IF price_str # <<>> /\ Head(price_str) = "$" /\ parsed.ok
           THEN <<parsed.value>> ELSE <<>>) \o CollectPrices(Tail(d))

RECURSIVE Insert(_, _)
Insert(sorted, x) == IF sorted = <<>> THEN <<x>>
                     ELSE IF x < Head(sorted) THEN <<x>> \o sorted
                     ELSE <<Head(sorted)>> \o Insert(Tail(sorted), x)

RECURSIVE Sorted(_)
\* sorted(prices): ascending
Sorted(q) == IF q = <<>> THEN <<>> ELSE Insert(Sorted(SubSeq(q, 1, Len(q) - 1)), q[Len(q)])

\* a slice that drops from the low end
DropHighest_Lowest(q, k) == IF k >= Len(q) THEN <<>> ELSE SubSeq(q, k + 1, Len(q))

\* prices_sorted[:-ignore_highest] for ignore_highest > 0
DropHighest(q, k) == IF k >= Len(q) THEN <<>> ELSE SubSeq(q, 1, Len(q) - k)

RECURSIVE Sum(_)
Sum(q) == IF q = <<>> THEN 0 ELSE Head(q) + Sum(Tail(q))

calculate_total_value(d, ignore_highest) ==
  LET prices_sorted == Sorted(CollectPrices(d))
  IN Sum(IF ignore_highest > 0 THEN DropHighest(prices_sorted, ignore_highest)
         ELSE prices_sorted)

\* the "Current Price" texts tried
PriceTexts == {<<>>, <<"$">>, <<"$", "1">>, <<"$", "2">>, <<" ", "$", "5">>,
               <<"$", " ", "2">>, <<"$", "1", ",", "0">>, <<"1", "0">>,
               <<"$", "x">>}

\* the items tried: the key missing, or one of the texts under it
PriceItems == {[hasPrice |-> FALSE, CurrentPrice |-> <<>>]}
              \cup {[hasPrice |-> TRUE, CurrentPrice |-> t] : t \in PriceTexts}

TotalCalls == [data : UNION {[1..n -> PriceItems] : n \in 0..MaxPrices},
               ignore_highest : 0..MaxDrop]

InitTotal ==
  /\ readable = FALSE /\ loaded = <<>> /\ data = <<>>
  /\ retries = 0 /\ max_threads = 1 /\ scrape_interval_hours = 0
  /\ InitProcess
  /\ fnIn \in TotalCalls /\ fnOut = NoCall

\* calculate_total_value(data, ignore_highest) is called and answers
CallTotalValue ==
  /\ fnOut = NoCall
  /\ fnOut' = <<calculate_total_value(fnIn.data, fnIn.ignore_highest)>>
  /\ UNCHANGED <<data, cfgVars, fnIn, mainPc, items_to_scrape, workerVars, semaphore,
                 browserVars, progress, fileVars, results, saved, exiting, sig,
                 cleanVars, exitCode, readerVars, calls>>

NextTotal == CallTotalValue

SpecTotal == InitTotal /\ [][NextTotal]_vars

TypeOK ==
  /\ mainPc \in {"main", "scrape_prices", "init_write", "gather", "done", "raised", "cancelled"}
  /\ \A w \in Workers :
       /\ pc[w] \in {"new", "launch", "attempt", "sleep", "publishing", "closing", "done"}
       /\ ret[w] \in {"running", "returned", "raised", "cancelled", "exit"}
       /\ pend[w] \in {"none", "Error", "Cancelled", "SystemExit"}
  /\ fileState \in {"absent", "empty", "full"}
  /\ semaphore \in 0..max_threads

\* ------------------------------------------------------------------ claims
\* the workers that hold a permit: past `async with semaphore`, not yet out
Holding(w) == pc[w] \in {"launch", "attempt", "sleep", "publishing", "closing"}

InFlight == {w \in Workers : Holding(w)}

\* C1: the number of scrape_single_price invocations that have acquired the
\* semaphore and not yet released it never exceeds the cap max_threads
C1_AtMostCapInFlight == Cardinality(InFlight) <= max_threads

\* C1 witness: more eligible items than permits, every permit taken, one waits
C1_Witness ==
  /\ Len(items_to_scrape) > max_threads
  /\ Cardinality(InFlight) = max_threads
  /\ \E w \in Workers : pc[w] = "new"
  /\ \E w \in Workers : pc[w] = "sleep"

\* C2: the tracker's counters and every published snapshot satisfy
\* processed = failed + successful
C2_ProcessedIsSum ==
  /\ progress.processed = progress.failed + progress.successful
  /\ fileState = "full" => fileSnap.processed = fileSnap.failed + fileSnap.successful

\* C2 witness: a published snapshot that counts a failure and a success
C2_Witness ==
  /\ fileState = "full"
  /\ fileSnap.failed >= 1 /\ fileSnap.successful >= 1
  /\ fileSnap.processed = 2

\* C3: every worker invocation that ran to its exit (returned or raised) has
\* called update_progress exactly once
C3_ExactlyOneUpdate ==
  \A w \in Workers : ret[w] \in {"returned", "raised"} => calls.updates[w] = 1

\* C4: when a worker raised and the process has ended, every other worker ran
\* to its own outcome, the successful results are in the catalog, and
\* scrape_prices returned the catalog (which main then saved)
C4_FailureIsolated ==
  (exitCode # -1 /\ \E w \in Workers : ret[w] = "raised") =>
     /\ mainPc = "done" /\ saved
     /\ \A v \in Workers : ret[v] \in {"returned", "raised"}
     /\ \A v \in Workers : (ret[v] = "returned" /\ Truthy(result[v])) =>
                              data[items_to_scrape[v]].Price = result[v].text

\* the retry loop of worker w ran to its end without an exception
LoopOver(w) == /\ pc[w] \in {"publishing", "closing", "done"}
               /\ calls.updates[w] = 1
               /\ pend[w] = "none"

\* C5: with retries >= 1 a worker makes at most `retries` attempts, sleeps
\* 2^a after failed attempt a when a < retries - 1 and never otherwise, stops
\* at the first success, and ends with no result exactly after `retries`
\* failed attempts and the sleeps 1, 2, ..., 2^(retries-2)
C5_RetryBackoff ==
  retries >= 1 =>
    \A w \in Workers :
      /\ calls.attempts[w] <= retries
      /\ Len(calls.sleeps[w]) <= retries - 1
      /\ \A k \in 1..Len(calls.sleeps[w]) : calls.sleeps[w][k] = Pow2(k - 1)
      /\ pc[w] = "attempt" => Len(calls.sleeps[w]) = calls.attempts[w]
      /\ pc[w] = "sleep" => Len(calls.sleeps[w]) = calls.attempts[w]
      /\ LoopOver(w) =>
           /\ calls.attempts[w] >= 1
           /\ Len(calls.sleeps[w]) = calls.attempts[w] - 1
           /\ calls.fails[w] = calls.attempts[w] =>
                 result[w].isNone /\ calls.attempts[w] = retries
           /\ calls.fails[w] < calls.attempts[w] =>
                 ~result[w].isNone /\ calls.fails[w] = calls.attempts[w] - 1

\* C5 witness: three retries, all failed, sleeps of 1 and 2, nothing returned
C5_Witness ==
  /\ retries = 3
  /\ \E w \in Workers : /\ ret[w] = "returned" /\ result[w].isNone
                        /\ calls.attempts[w] = 3
                        /\ calls.sleeps[w] = <<1, 2>>
  /\ \E w \in Workers : /\ ret[w] = "returned" /\ ~result[w].isNone
                        /\ calls.attempts[w] = 2
                        /\ calls.sleeps[w] = <<1>>

\* scrape_prices ran a batch and returned
BatchReturned == mainPc = "done" /\ calls.tracker = 1

\* C6: the gathered list is aligned with the eligible subset: its i-th entry
\* is what the worker of the i-th eligible item produced, the merge writes into
\* an item only the text read at that item's own address, and the eligible
\* subset keeps the order of the catalog
C6_ResultsAligned ==
  /\ \A v, w \in 1..Len(items_to_scrape) : v < w => items_to_scrape[v] < items_to_scrape[w]
  /\ BatchReturned =>
       /\ Len(results) = Len(items_to_scrape)
       /\ \A w \in Workers :
            /\ results[w] = result[w]
            /\ Truthy(result[w]) =>
                 /\ result[w].text = PageText(loaded[items_to_scrape[w]].Link)
                 /\ data[items_to_scrape[w]].Price = result[w].text
       /\ \A k \in 1..Len(data) :
            data[k].Price # loaded[k].Price => data[k].Price = PageText(loaded[k].Link)

\* C6 witness: two workers, the second finished first, both prices merged
C6_Witness ==
  /\ BatchReturned
  /\ calls.order = <<2, 1>>
  /\ Len(items_to_scrape) = 2
  /\ Truthy(results[1]) /\ Truthy(results[2])
  /\ results[1] # results[2]
  /\ data[items_to_scrape[2]].Price = PageText(loaded[items_to_scrape[2]].Link)

\* C7 as stated: after scrape_prices returned from a batch whose workers all
\* ended in success or exhaustion, the progress file does not exist
C7_FileGoneAfterReturn == BatchReturned => fileState = "absent"

\* C7 amended: after such a return cleanup was called once, and the progress
\* file does not exist unless os.remove raised in cleanup (which is only logged)
C7_FileGoneUnlessRemoveRaised ==
  BatchReturned =>
    /\ calls.cleanup = 1
    /\ calls.removeFailed = 0 => fileState = "absent"

\* C7 witness: a returned batch with one success and one exhausted item, file gone
C7_Witness ==
  /\ BatchReturned
  /\ fileState = "absent"
  /\ progress.successful = 1 /\ progress.failed = 1

\* C8: once the process has ended, cleanup was called once for every tracker
\* that was created
C8_CleanupOnEveryPath == exitCode # -1 => calls.cleanup = calls.tracker

\* every item of the loaded catalog lacks an address or is not due
NoneEligible ==
  \A k \in 1..Len(loaded) :
    \/ loaded[k].Link = 0
    \/ /\ scrape_interval_hours # 0
       /\ loaded[k].LastScrape.kind = "time"
       /\ ~IntervalElapsed(loaded[k].LastScrape.minutesAgo, scrape_interval_hours)

\* C9: when no item is eligible, no tracker is constructed, the progress file
\* never exists, no worker and no browser is started, and the catalog is
\* returned as it was loaded
C9_NothingEligibleNoWork ==
  NoneEligible =>
    /\ calls.tracker = 0 /\ fileState = "absent"
    /\ Workers = {} /\ calls.launches = 0 /\ browsers = <<>>
    /\ data = loaded
    /\ mainPc \in {"main", "scrape_prices", "done"}
    /\ mainPc = "done" => exitCode = 0 /\ (loaded # <<>> => saved)

\* C9 witness: a catalog of two items, none eligible, and the run is over
C9_Witness ==
  /\ NoneEligible /\ Len(loaded) = 2
  /\ \E k \in 1..Len(loaded) : loaded[k].Link # 0
  /\ mainPc = "done"

\* C11: cleanup_browsers and the workers tolerate each other: in no
\* interleaving of a signal's cleanup_browsers with the workers' own
\* ManagedBrowser exits does browsers.remove raise
C11_NeitherPartyRaises == calls.valueErrors = 0

\* C12: when a termination signal was handled, the process does not end
\* while a registered browser is still open
C12_ShutdownDrains ==
  (sig /\ exitCode # -1) =>
    \A k \in 1..Len(browsers) : browserState[browsers[k]] = "closed"

\* C13: should_scrape answers true when the interval is 0, when the
\* timestamp is absent or empty, and when it is present but unparsable;
\* otherwise it answers true exactly when at least the interval has elapsed
C13_DueContract ==
  fnOut # NoCall =>
    LET stamp == fnIn.item.LastScrape IN
      fnOut[1] = IF \/ fnIn.hours = 0
                    \/ stamp.kind \in {"absent", "empty", "bad"}
                    \/ stamp.minutesAgo >= 60 * fnIn.hours
                 THEN "True" ELSE "False"

\* C14: a run changes the catalog only in Current Price and Last Scrape of
\* items whose worker returned a price: every other item keeps every field,
\* the other fields of a changed item are kept, and the length and order of
\* the catalog are kept
C14_OnlySucceededItemsChange ==
  /\ Len(data) = Len(loaded)
  /\ \A k \in 1..Len(data) :
       /\ data[k].Set = loaded[k].Set /\ data[k].Link = loaded[k].Link
       /\ data[k] # loaded[k] =>
            \E w \in Workers : /\ items_to_scrape[w] = k
                                /\ ret[w] = "returned" /\ ~result[w].isNone
                                /\ data[k].Price = result[w].text
                                /\ data[k].LastScrape = NowStamp

\* C14 witness: the batch returned, the first item was updated, and the
\* second, whose worker used up its retries, still has what was loaded
C14_Witness ==
  /\ BatchReturned /\ Len(items_to_scrape) = 2
  /\ data[items_to_scrape[1]] # loaded[items_to_scrape[1]]
  /\ result[2].isNone /\ calls.fails[2] = retries /\ retries > 1
  /\ data[items_to_scrape[2]] = loaded[items_to_scrape[2]]
  /\ loaded[items_to_scrape[2]].LastScrape.kind = "time"

\* C15: the process exits with 0 when main completes, whether nothing was
\* eligible or items failed after their retries, and with a non-zero code
\* when the catalog file is missing or is not JSON
C15_ExitCodes ==
  exitCode # -1 =>
    /\ (readable /\ mainPc = "done") => exitCode = 0
    /\ ~readable => exitCode # 0

\* C16: the published processed counter never decreases from one content of
\* the progress file to the next, and it always lies between 0 and the number
\* of eligible items
C16_ProcessedMonotoneBounded ==
  /\ [](/\ 0 <= progress.processed /\ progress.processed <= progress.items_to_scrape
        /\ 0 <= fileSnap.processed /\ fileSnap.processed <= fileSnap.items_to_scrape
        /\ progress.items_to_scrape = Len(items_to_scrape))
  /\ [][fileSnap'.processed >= fileSnap.processed]_vars

\* C16 witness: two eligible items; the file shows both processed, one as a
\* success and one as a failure, after it had shown only one of them
C16_Witness ==
  /\ fileState = "full" /\ fileSnap.items_to_scrape = 2
  /\ fileSnap.processed = 2 /\ fileSnap.successful = 1 /\ fileSnap.failed = 1
  /\ Len(calls.order) >= 1

\* C17: a run without a signal, once its tasks are created, completes: the
\* process does not end before every worker reached its own outcome and
\* scrape_prices returned, each eligible item being either updated or left
\* with what was loaded
C17_RunCompletes ==
  (exitCode # -1 /\ calls.tracker = 1) =>
     /\ mainPc = "done"
     /\ \A w \in Workers :
          /\ ret[w] = "returned"
          /\ \/ data[items_to_scrape[w]] = loaded[items_to_scrape[w]]
             \/ data[items_to_scrape[w]].LastScrape = NowStamp

\* what each text is worth as a '$'-prefixed number, -1 when it is none
Dollars(t) == CASE t = <<"$", "1">> -> 1
                [] t = <<"$", "2">> -> 2
                [] t = <<" ", "$", "5">> -> 5
                [] t = <<"$", " ", "2">> -> 2
                [] t = <<"$", "1", ",", "0">> -> 10
                [] OTHER -> 0 - 1

\* the positions of d whose item carries a '$'-prefixed number
Priced(d) == {i \in 1..Len(d) : d[i].hasPrice /\ Dollars(d[i].CurrentPrice) >= 0}

RECURSIVE SumOver(_, _)
SumOver(d, I) == IF I = {} THEN 0
                 ELSE LET i == CHOOSE j \in I : TRUE
                      IN Dollars(d[i].CurrentPrice) + SumOver(d, I \ {i})

\* the ways to choose the positions that stay when the k highest are dropped:
\* n - k positions none of which is worth more than a dropped one
Kept(d, k) == {I \in SUBSET Priced(d) :
                 /\ Cardinality(I) = Cardinality(Priced(d)) - k
                 /\ \A i \in I, j \in Priced(d) \ I :
                      Dollars(d[i].CurrentPrice) <= Dollars(d[j].CurrentPrice)}

\* C18: calculate_total_value answers the sum of the n - k smallest of the n
\* '$'-prefixed numbers (all of them for k = 0, none for k >= n), and items
\* without such a price neither add to the sum nor count among the dropped
C18_TotalIgnoringHighest ==
  fnOut # NoCall =>
    LET d == fnIn.data
        k == fnIn.ignore_highest
    IN IF k >= Cardinality(Priced(d)) THEN fnOut[1] = 0
       ELSE /\ Kept(d, k) # {}
            /\ \A I \in Kept(d, k) : fnOut[1] = SumOver(d, I)

\* C18 witness: three items, one without a price text that counts, the
\* higher of the two others is dropped
C18_Witness ==
  /\ fnOut # NoCall /\ fnOut[1] > 0
  /\ Len(fnIn.data) = 3 /\ Cardinality(Priced(fnIn.data)) = 2
  /\ fnIn.ignore_highest = 1
  /\ \E i \in 1..3 : fnIn.data[i].CurrentPrice = <<"$", "x">>
  /\ \E i \in 1..3 : fnIn.data[i].CurrentPrice = <<"$", "1", ",", "0">>

\* C19: every attempt of a worker works on a browser session of its own, a
\* registered session different from that of each other attempt, and the
\* session of a finished attempt is released before the backoff sleep or the
\* next attempt begins
C19_FreshSessionPerAttempt ==
  \A w \in Workers :
    LET used == calls.sessions[w] IN
      /\ \A a, b \in 1..Len(used) : a # b => used[a].browser # used[b].browser
      /\ (pc[w] \in {"sleep", "attempt"} /\ used # <<>>) =>
           /\ ~InList(browsers, used[Len(used)].browser)
           /\ browserState[used[Len(used)].browser] = "closed"

\* C20: a worker takes its permit before its browser is launched and before
\* its first attempt, keeps it through every attempt and backoff sleep, and
\* gives it back exactly once when it ends, however it ends; the permits out
\* are those of the workers in between, and once every worker has ended all
\* max_threads permits are back
C20_PermitHeldAndReturned ==
  /\ \A w \in Workers :
       /\ calls.releases[w] <= calls.acquires[w] /\ calls.acquires[w] <= 1
       /\ (\/ browserState[w] # "none" \/ calls.attempts[w] > 0
           \/ calls.sleeps[w] # <<>> \/ calls.updates[w] > 0) => calls.acquires[w] = 1
       /\ pc[w] \in {"launch", "attempt", "sleep", "publishing", "closing"} =>
            calls.acquires[w] = 1 /\ calls.releases[w] = 0
       /\ pc[w] = "done" => calls.releases[w] = calls.acquires[w]
  /\ Workers # {} =>
       /\ semaphore = max_threads
                        - Cardinality({w \in Workers : calls.acquires[w] > calls.releases[w]})
       /\ AllDone => semaphore = max_threads

\* C20 witness: one permit, two workers, both ended: the first raised at its
\* launch, the second slept between two failed attempts and then returned
C20_Witness ==
  /\ max_threads = 1 /\ Len(pc) = 2 /\ AllDone
  /\ \E v, w \in Workers :
       /\ ret[v] = "raised" /\ calls.releases[v] = 1
       /\ ret[w] = "returned" /\ calls.sleeps[w] # <<>> /\ calls.releases[w] = 1
  /\ semaphore = 1

\* C21: the catalog is not written while a worker of the batch is in flight:
\* as long as any worker has not ended the catalog is what was loaded, a
\* step that writes into it starts with every worker ended, and when the
\* catalog has been handed to save_data every returned price is in it
C21_MergeAfterAllWorkers ==
  /\ []((\E w \in Workers : pc[w] # "done") => (data = loaded /\ ~saved))
  /\ [](saved => \A w \in Workers :
                    Truthy(result[w]) => data[items_to_scrape[w]].Price = result[w].text)
  /\ [][data' # data => (Workers # {} /\ AllDone /\ saved')]_vars

\* C21 witness: two workers, both returned a price, the second one first; the
\* merge wrote both items and the catalog was saved
C21_Witness ==
  /\ saved /\ Len(pc) = 2 /\ calls.order = <<2, 1>>
  /\ \A w \in Workers : Truthy(result[w])
                          /\ data[items_to_scrape[w]] # loaded[items_to_scrape[w]]

\* the workers that ran to an outcome of their own: returned or raised
Ended == {w \in Workers : pc[w] = "done" /\ ret[w] \in {"returned", "raised"}}

\* C22: in a run with an eligible item the progress file exists from the
\* construction of the tracker until cleanup; before any worker has started
\* it shows the totals with processed, failed, successful and the estimate at
\* 0; and it has been rewritten for every worker that reached its outcome
C22_PublishedFromStart ==
  /\ (calls.tracker = 1 /\ calls.cleanup = 0) => fileState # "absent"
  /\ (mainPc = "gather" /\ \A w \in Workers : pc[w] = "new") =>
       /\ fileState = "full"
       /\ fileSnap = [total_items |-> Len(loaded),
                      items_to_scrape |-> Len(items_to_scrape),
                      processed |-> 0, failed |-> 0, successful |-> 0,
                      estimated_remaining_time |-> 0]
  /\ (Workers # {} /\ fileState = "full") => fileSnap.processed >= Cardinality(Ended)

\* the workers whose item the merge wrote
Written == {w \in Workers : data[items_to_scrape[w]] # loaded[items_to_scrape[w]]}

\* C23: what the tracker counted agrees with what the merge did: after a
\* batch that returned, successful is the number of eligible items that were
\* written and failed is the number of eligible items left as loaded
C23_CountsAgreeWithMerge ==
  BatchReturned =>
    /\ progress.successful = Cardinality(Written)
    /\ progress.failed = Cardinality(Workers \ Written)

\* the workers inside their ManagedBrowser block: the browser was launched
\* and the worker has not ended
InBlock == {w \in Workers : browserState[w] # "none" /\ pc[w] # "done"}

\* C24: without a signal the registry holds exactly the browsers of the
\* workers inside their ManagedBrowser block, each once, never more than
\* max_threads of them, and none once every worker has ended
C24_RegistryIsLiveBrowsers ==
  /\ {browsers[k] : k \in 1..Len(browsers)} = InBlock
  /\ \A j, k \in 1..Len(browsers) : j # k => browsers[j] # browsers[k]
  /\ Len(browsers) <= max_threads
  /\ (Workers # {} /\ AllDone) => browsers = <<>>

\* C10: no poll of the monitor finds the progress file empty or torn
C10_ReaderNeverMalformed == readerSaw # "empty"

====
